---- MODULE Spec2Model ----
(***************************************************************************)
(* Model of the pms_server broker: the worker-pool dispatcher of           *)
(* src/server.js, the worker thread of src/worker/db_worker.js, the        *)
(* channel registry and the per-connection heartbeat of src/server.js.     *)
(*                                                                         *)
(* The main thread is one event loop: every handler of server.js is one    *)
(* atomic action.  A worker thread handles a job in several steps, one     *)
(* per await of db_worker.js, and the steps of different workers           *)
(* interleave.                                                             *)
(***************************************************************************)
EXTENDS Integers, Sequences, FiniteSets, TLC

\* ---------------------------------------------------------------- bounds
MaxJobs == 4      \* jobs submitted when only the worker pool is explored
MaxQueueJobs == 6 \* jobs of one shape submitted when the queue is explored
MaxLiveJobs == 5  \* jobs of one shape submitted when progress is explored
MaxConnJobs == 1  \* jobs submitted when the connections are explored too
MaxConns == 2     \* connections accepted over the run

\* ------------------------------------------------------ program constants
workerPoolSize == 3

Workers == 1..workerPoolSize          \* the Set iterates in insertion order
Conns == 1..MaxConns
Topics == <<"backend", "frontend">>   \* the Map iterates in insertion order
TopicNames == {Topics[i] : i \in 1..Len(Topics)}
ClusterIds == {"c1"}

NoWorker == 0                         \* find() returning undefined
NoData == "undefined"                 \* a frame without a data field
NoJob == [id |-> 0, type |-> 0, request |-> "none", data |-> NoData]
Malformed == [malformed |-> TRUE]

\* The frames a client sends.  Four job shapes on 'backend' (cluster insert,
\* sensor insert, a request other than insert, a job without data), one
\* frame naming 'frontend', one naming a channel that is not registered,
\* and one that JSON.parse rejects.
Frame(t, ch, r, d) == [message_type |-> t, channel |-> ch, request |-> r, data |-> d]
JobFrames ==
    { Frame(0, "backend", "insert", id) : id \in ClusterIds } \cup
    { Frame(1, "backend", "insert", id) : id \in ClusterIds } \cup
    { Frame(0, "backend", "update", id) : id \in ClusterIds } \cup
    { Frame(0, "backend", "insert", NoData) }
SensorFrames == { Frame(1, "backend", "insert", id) : id \in ClusterIds }
OtherFrames ==
    { Frame(0, "frontend", "insert", NoData), Frame(0, "other", "insert", NoData), Malformed }
Frames == JobFrames \cup OtherFrames

IsMalformed(f) == f = Malformed
SubmitsJob(f) == ~IsMalformed(f) /\ f.channel = "backend"

VARIABLES
    busy,            \* worker.busy
    requestQueue,    \* requestQueue
    inbox,           \* messages posted to a worker, not yet received by it
    outbox,          \* messages posted by a worker, not yet handled by the server
    wpc,             \* the query the worker's handleInsertRequest awaits, or "idle"
    wjob,            \* the message handleInsertRequest is working on
    held,            \* connection handles the worker acquired and has not released
    clusterRecords,  \* rows of cluster_records
    insertAttempts,  \* INSERT INTO cluster_records issued, per cluster id: 0, 1, or 2 for two and more
    channels,        \* topic -> subscriber list
    sock,            \* the socket of a connection
    isAlive,         \* the closure's isAlive
    timer,           \* the heartbeat interval is armed
    sinceLastPong,   \* heartbeat ticks since the last pong (or since accept)
    acks,            \* acknowledgments sent, per connection and topic
    named,           \* frames received, per connection and channel name: 0, 1, or 2 for two and more
    cleanups,        \* calls of cleanupClient, per connection
    answered,        \* a pong of the connection has answered a ping
    posted,          \* ids of the jobs posted to a worker, in the order of the postMessage calls
    submitted,       \* calls of assignWorkToWorker from the message handler
    completed,       \* worker messages handled
    wfault           \* a backend fault hit the job posted to the worker last, whose completion the server has not handled

dispatchVars == <<busy, requestQueue, inbox, posted>>
workerVars == <<outbox, wpc, wjob, held, clusterRecords, insertAttempts, wfault>>
connVars == <<channels, sock, isAlive, timer, sinceLastPong, acks, named, cleanups, answered>>
countVars == <<submitted, completed>>
vars == <<dispatchVars, workerVars, connVars, countVars>>

ChannelNames == TopicNames \cup {"other"}

\* ------------------------------------------------------------ helpers
Range(s) == {s[i] : i \in 1..Len(s)}
Count(s, x) == Cardinality({i \in 1..Len(s) : s[i] = x})
BusyCount(b) == Cardinality({w \in Workers : b[w]})

\* Array.prototype.indexOf: the first index holding x, 0 when absent.
IndexOf(s, x) ==
    IF x \in Range(s) THEN CHOOSE i \in 1..Len(s) : s[i] = x /\ \A j \in 1..(i - 1) : s[j] # x
    ELSE 0

\* Array.prototype.splice(index, 1)
Splice(s, i) == [k \in 1..(Len(s) - 1) |-> IF k < i THEN s[k] ELSE s[k + 1]]

\* ------------------------------------------------------------ dispatcher
\* The dispatcher's state is passed as a record d with the fields busy,
\* requestQueue, inbox and posted.
Dispatch == [busy |-> busy, requestQueue |-> requestQueue, inbox |-> inbox, posted |-> posted]

\* Mutant: the last idle worker in pool order instead of the first.
finAvailableWorker_lastMatch(b) ==
    IF \E w \in Workers : ~b[w]
    THEN CHOOSE w \in Workers : ~b[w] /\ \A v \in Workers : v > w => b[v]
    ELSE NoWorker

finAvailableWorker(b) ==
    IF \E w \in Workers : ~b[w]
    THEN CHOOSE w \in Workers : ~b[w] /\ \A v \in Workers : v < w => b[v]
    ELSE NoWorker

\* Mutant: a job that finds no idle worker is dropped.
assignWorkToWorker_dropWhenBusy(d, job) ==
    LET worker == finAvailableWorker(d.busy) IN
    IF worker # NoWorker
    THEN [d EXCEPT !.inbox[worker] = Append(@, job),
                   !.posted = Append(@, job.id),
                   !.busy[worker] = TRUE]
    ELSE d

assignWorkToWorker(d, job) ==
    LET worker == finAvailableWorker(d.busy) IN
    IF worker # NoWorker
    THEN [d EXCEPT !.inbox[worker] = Append(@, job),
                   !.posted = Append(@, job.id),
                   !.busy[worker] = TRUE]
    ELSE [d EXCEPT !.requestQueue = Append(@, job)]

\* Mutant: the busy flag is not cleared.
handleWorkerMessages_keepBusy(d, worker, message) ==
    IF Len(d.requestQueue) > 0
    THEN assignWorkToWorker([d EXCEPT !.requestQueue = Tail(@)], Head(d.requestQueue))
    ELSE d

\* Mutant: pop() instead of shift(), the newest queued job goes first.
handleWorkerMessages_popLast(d, worker, message) ==
    LET d1 == [d EXCEPT !.busy[worker] = FALSE]
        n == Len(d1.requestQueue)
    IN  IF n > 0
        THEN assignWorkToWorker([d1 EXCEPT !.requestQueue = SubSeq(@, 1, n - 1)],
                                d1.requestQueue[n])
        ELSE d1

\* Mutant: a job reported as failed is put back at the tail of the queue.
handleWorkerMessages_retryOnError(d, worker, message) ==
    LET d1 == [d EXCEPT !.busy[worker] = FALSE]
        d2 == IF message.result = "error"
              THEN [d1 EXCEPT !.requestQueue = Append(@, [NoJob EXCEPT !.id = message.job])]
              ELSE d1
    IN  IF Len(d2.requestQueue) > 0
        THEN assignWorkToWorker([d2 EXCEPT !.requestQueue = Tail(@)], Head(d2.requestQueue))
        ELSE d2

\* Mutant: the busy flag is cleared after the queue was served.
handleWorkerMessages_clearLast(d, worker, message) ==
    LET d1 == IF Len(d.requestQueue) > 0
              THEN assignWorkToWorker([d EXCEPT !.requestQueue = Tail(@)], Head(d.requestQueue))
              ELSE d
    IN  [d1 EXCEPT !.busy[worker] = FALSE]

\* Mutant: the handler clears the flag and leaves the queue alone.
handleWorkerMessages_noDrain(d, worker, message) ==
    [d EXCEPT !.busy[worker] = FALSE]

\* Mutant: the head of the queue is shifted and not assigned.
handleWorkerMessages_dropHead(d, worker, message) ==
    LET d1 == [d EXCEPT !.busy[worker] = FALSE] IN
    IF Len(d1.requestQueue) > 0
    THEN [d1 EXCEPT !.requestQueue = Tail(@)]
    ELSE d1

handleWorkerMessages(d, worker, message) ==
    LET d1 == [d EXCEPT !.busy[worker] = FALSE] IN
    IF Len(d1.requestQueue) > 0
    THEN assignWorkToWorker([d1 EXCEPT !.requestQueue = Tail(@)], Head(d1.requestQueue))
    ELSE d1

SetDispatch(d) ==
    /\ busy' = d.busy
    /\ requestQueue' = d.requestQueue
    /\ inbox' = d.inbox
    /\ posted' = d.posted

\* worker.on('message'): the server handles a worker's completion message.
OnWorkerMessage(w) ==
    /\ outbox[w] # <<>>
    /\ SetDispatch(handleWorkerMessages(Dispatch, w, Head(outbox[w])))
    /\ outbox' = [outbox EXCEPT ![w] = Tail(@)]
    /\ completed' = completed + 1
    /\ wfault' = [wfault EXCEPT ![w] = FALSE]
    /\ UNCHANGED <<wpc, wjob, held, clusterRecords, insertAttempts>>
    /\ UNCHANGED <<connVars, submitted>>

\* ------------------------------------------------------------ worker thread
postMessageToParent(ob, w, result, job) ==
    [ob EXCEPT ![w] = Append(@, [result |-> result, job |-> job.id])]

\* parentPort.on('message'), up to the end of the handler's synchronous run
\* after pool.getConnection() resolved.  Waiting for the connection touches
\* nothing another thread can see, so delivery of the message and the
\* resolution are one step.  The handler destructures the message, calls
\* handleInsertRequest without awaiting it (which issues the first query)
\* and releases the connection.
GetConnectionOk(w) ==
    /\ wpc[w] = "idle"
    /\ inbox[w] # <<>>
    /\ inbox' = [inbox EXCEPT ![w] = Tail(@)]
    /\ LET job == Head(inbox[w]) IN
       IF job.data = NoData
       THEN \* destructuring undefined throws before the release; the catch
            \* block posts the error
            /\ held' = [held EXCEPT ![w] = @ + 1]
            /\ outbox' = postMessageToParent(outbox, w, "error", job)
            /\ UNCHANGED <<wpc, wjob>>
       ELSE IF job.request = "insert"
       THEN /\ wjob' = [wjob EXCEPT ![w] = job]
            /\ wpc' = [wpc EXCEPT ![w] = IF job.type = 0 THEN "select" ELSE "insertSensor"]
            /\ UNCHANGED <<held, outbox>>
       ELSE \* nothing to do, and nothing is posted to the parent
            /\ UNCHANGED <<held, outbox, wpc, wjob>>
    /\ UNCHANGED <<busy, requestQueue, posted, clusterRecords, insertAttempts, wfault>>
    /\ UNCHANGED <<connVars, countVars>>

\* The same, pool.getConnection() rejecting: the catch block posts the error.
GetConnectionFail(w) ==
    /\ wpc[w] = "idle"
    /\ inbox[w] # <<>>
    /\ inbox' = [inbox EXCEPT ![w] = Tail(@)]
    /\ outbox' = postMessageToParent(outbox, w, "error", Head(inbox[w]))
    /\ wfault' = [wfault EXCEPT ![w] = TRUE]
    /\ UNCHANGED <<busy, requestQueue, posted, wpc, wjob, held, clusterRecords, insertAttempts>>
    /\ UNCHANGED <<connVars, countVars>>

\* handleInsertRequest, type 0: the SELECT resolves.
SelectOk(w) ==
    /\ wpc[w] = "select"
    /\ LET id == wjob[w].data IN
       IF id \notin clusterRecords
       THEN /\ insertAttempts' = [insertAttempts EXCEPT ![id] = IF @ < 2 THEN @ + 1 ELSE @]
            /\ wpc' = [wpc EXCEPT ![w] = "insertCluster"]
            /\ UNCHANGED <<outbox, wjob>>
       ELSE /\ outbox' = postMessageToParent(outbox, w, "success", wjob[w])
            /\ wpc' = [wpc EXCEPT ![w] = "idle"]
            /\ wjob' = [wjob EXCEPT ![w] = NoJob]
            /\ UNCHANGED insertAttempts
    /\ UNCHANGED <<dispatchVars, held, clusterRecords, wfault>>
    /\ UNCHANGED <<connVars, countVars>>

\* handleInsertRequest, type 0: the INSERT INTO cluster_records resolves.
InsertClusterOk(w) ==
    /\ wpc[w] = "insertCluster"
    /\ clusterRecords' = clusterRecords \cup {wjob[w].data}
    /\ outbox' = postMessageToParent(outbox, w, "success", wjob[w])
    /\ wpc' = [wpc EXCEPT ![w] = "idle"]
    /\ wjob' = [wjob EXCEPT ![w] = NoJob]
    /\ UNCHANGED <<dispatchVars, held, insertAttempts, wfault>>
    /\ UNCHANGED <<connVars, countVars>>

\* handleInsertRequest, other types: the INSERT INTO sensor_records resolves.
InsertSensorOk(w) ==
    /\ wpc[w] = "insertSensor"
    /\ outbox' = postMessageToParent(outbox, w, "success", wjob[w])
    /\ wpc' = [wpc EXCEPT ![w] = "idle"]
    /\ wjob' = [wjob EXCEPT ![w] = NoJob]
    /\ UNCHANGED <<dispatchVars, held, clusterRecords, insertAttempts, wfault>>
    /\ UNCHANGED <<connVars, countVars>>

\* A query of handleInsertRequest rejects.  The promise of handleInsertRequest
\* is not awaited, so the rejection is outside the handler's try block: it
\* is an unhandled rejection.  Depending on the runtime's unhandled-rejection
\* mode the worker thread lives on (a warning) or dies; nothing is posted.
QueryFail(w) ==
    /\ wpc[w] \in {"select", "insertCluster", "insertSensor"}
    /\ wfault' = [wfault EXCEPT ![w] = TRUE]
    /\ \E next \in {"idle", "crashed"} : wpc' = [wpc EXCEPT ![w] = next]
    /\ wjob' = [wjob EXCEPT ![w] = NoJob]
    /\ UNCHANGED <<dispatchVars, outbox, held, clusterRecords, insertAttempts>>
    /\ UNCHANGED <<connVars, countVars>>

\* The steps of the worker threads.
WorkerStep ==
    \/ \E w \in Workers : GetConnectionOk(w)
    \/ \E w \in Workers : GetConnectionFail(w)
    \/ \E w \in Workers : SelectOk(w)
    \/ \E w \in Workers : InsertClusterOk(w)
    \/ \E w \in Workers : InsertSensorOk(w)
    \/ \E w \in Workers : QueryFail(w)

\* ------------------------------------------------------------ connections
Init ==
    /\ busy = [w \in Workers |-> FALSE]
    /\ requestQueue = <<>>
    /\ inbox = [w \in Workers |-> <<>>]
    /\ outbox = [w \in Workers |-> <<>>]
    /\ wpc = [w \in Workers |-> "idle"]
    /\ wjob = [w \in Workers |-> NoJob]
    /\ held = [w \in Workers |-> 0]
    /\ clusterRecords = {}
    /\ insertAttempts = [id \in ClusterIds |-> 0]
    /\ channels = [t \in TopicNames |-> <<>>]
    /\ sock = [c \in Conns |-> "none"]
    /\ isAlive = [c \in Conns |-> FALSE]
    /\ timer = [c \in Conns |-> FALSE]
    /\ sinceLastPong = [c \in Conns |-> 0]
    /\ acks = [c \in Conns |-> [t \in TopicNames |-> 0]]
    /\ named = [c \in Conns |-> [t \in ChannelNames |-> 0]]
    /\ cleanups = [c \in Conns |-> 0]
    /\ answered = [c \in Conns |-> FALSE]
    /\ posted = <<>>
    /\ submitted = 0
    /\ completed = 0
    /\ wfault = [w \in Workers |-> FALSE]

\* wss.on('connection'): handleSocketConnection arms the heartbeat and
\* registers the handlers.  Connections are numbered in accept order.
Accept(c) ==
    /\ sock[c] = "none"
    /\ \A b \in Conns : b < c => sock[b] # "none"
    /\ sock' = [sock EXCEPT ![c] = "open"]
    /\ isAlive' = [isAlive EXCEPT ![c] = TRUE]
    /\ timer' = [timer EXCEPT ![c] = TRUE]
    /\ sinceLastPong' = [sinceLastPong EXCEPT ![c] = 0]
    /\ UNCHANGED <<channels, acks, named, cleanups, answered>>
    /\ UNCHANGED <<dispatchVars, workerVars, countVars>>

\* Mutant: the pong handler does not set the flag.
OnPong_flagUnset(c) ==
    /\ sock[c] = "open"
    /\ isAlive' = isAlive
    /\ sinceLastPong' = [sinceLastPong EXCEPT ![c] = 0]
    /\ answered' = [answered EXCEPT ![c] = @ \/ ~isAlive[c]]
    /\ UNCHANGED <<channels, sock, timer, acks, named, cleanups>>
    /\ UNCHANGED <<dispatchVars, workerVars, countVars>>

\* clientWebSocket.on('pong')
OnPong(c) ==
    /\ sock[c] = "open"
    /\ isAlive' = [isAlive EXCEPT ![c] = TRUE]
    /\ sinceLastPong' = [sinceLastPong EXCEPT ![c] = 0]
    /\ answered' = [answered EXCEPT ![c] = @ \/ ~isAlive[c]]
    /\ UNCHANGED <<channels, sock, timer, acks, named, cleanups>>
    /\ UNCHANGED <<dispatchVars, workerVars, countVars>>

cleanupClient(chs, c) ==
    LET hit == {i \in 1..Len(Topics) : c \in Range(chs[Topics[i]])} IN
    IF hit = {} THEN chs
    ELSE LET i == CHOOSE k \in hit : \A j \in hit : k <= j
             t == Topics[i]
         IN  [chs EXCEPT ![t] = Splice(@, IndexOf(@, c))]

\* WebSocket.terminate(): destroys the socket of a connection that is not
\* closed yet; its 'close' event is emitted later.
terminate(st) == IF st = "open" THEN "terminating" ELSE st

\* The setInterval callback of the connection, every 30000 ms.
Heartbeat(c) ==
    /\ timer[c]
    /\ sinceLastPong' = [sinceLastPong EXCEPT ![c] = @ + 1]
    /\ IF ~isAlive[c]
       THEN /\ timer' = [timer EXCEPT ![c] = FALSE]
            /\ sock' = [sock EXCEPT ![c] = terminate(@)]
            /\ channels' = cleanupClient(channels, c)
            /\ cleanups' = [cleanups EXCEPT ![c] = @ + 1]
            /\ isAlive' = isAlive
       ELSE /\ isAlive' = [isAlive EXCEPT ![c] = FALSE]
            /\ UNCHANGED <<timer, sock, channels, cleanups>>
    /\ UNCHANGED <<acks, named, answered>>
    /\ UNCHANGED <<dispatchVars, workerVars, countVars>>

\* clientWebSocket.on('close'): after a close by the client, a lost
\* transport, or terminate().
OnClose(c) ==
    /\ sock[c] \in {"open", "terminating"}
    /\ sock' = [sock EXCEPT ![c] = "closed"]
    /\ channels' = cleanupClient(channels, c)
    /\ cleanups' = [cleanups EXCEPT ![c] = @ + 1]
    /\ UNCHANGED <<isAlive, timer, sinceLastPong, acks, named, answered>>
    /\ UNCHANGED <<dispatchVars, workerVars, countVars>>

\* Mutant: the subscriber list is not searched before the push.
onMessage_noIncludesCheck(s, c, f) ==
    IF f.channel \in DOMAIN s.channels
    THEN LET s1 == [s EXCEPT !.channels[f.channel] = Append(@, c),
                             !.acks[c][f.channel] = @ + 1]
         IN  IF f.channel = "backend"
             THEN [s1 EXCEPT !.disp = assignWorkToWorker(@,
                                 [id |-> s.submitted + 1, type |-> f.message_type,
                                  request |-> f.request, data |-> f.data]),
                             !.submitted = @ + 1]
             ELSE s1
    ELSE s

\* Mutant: the job is routed outside the registry test, for every channel
\* that is not 'frontend'.
onMessage_routeAnyChannel(s, c, f) ==
    LET s1 == IF f.channel \in DOMAIN s.channels /\ c \notin Range(s.channels[f.channel])
              THEN [s EXCEPT !.channels[f.channel] = Append(@, c),
                             !.acks[c][f.channel] = @ + 1]
              ELSE s
    IN  IF f.channel # "frontend"
        THEN [s1 EXCEPT !.disp = assignWorkToWorker(@,
                            [id |-> s.submitted + 1, type |-> f.message_type,
                             request |-> f.request, data |-> f.data]),
                        !.submitted = @ + 1]
        ELSE s1

\* The body of the 'message' handler for a frame that parses.  s is the
\* record of what the handler can change: channels, acks, the dispatcher's
\* state disp, and submitted.
onMessage(s, c, f) ==
    IF f.channel \in DOMAIN s.channels
    THEN LET s1 == IF c \notin Range(s.channels[f.channel])
                   THEN [s EXCEPT !.channels[f.channel] = Append(@, c),
                                  !.acks[c][f.channel] = @ + 1]
                   ELSE s
         IN  IF f.channel = "backend"
             THEN [s1 EXCEPT !.disp = assignWorkToWorker(@,
                                 [id |-> s.submitted + 1, type |-> f.message_type,
                                  request |-> f.request, data |-> f.data]),
                             !.submitted = @ + 1]
             ELSE s1
    ELSE s

\* clientWebSocket.on('message')
OnMessage(c, f, maxJobs) ==
    /\ sock[c] = "open"
    /\ SubmitsJob(f) => submitted < maxJobs
    /\ IF IsMalformed(f)
       THEN \* JSON.parse throws; the catch block logs the error
            UNCHANGED <<channels, acks, named, dispatchVars, submitted>>
       ELSE LET s == onMessage([channels |-> channels, acks |-> acks,
                                disp |-> Dispatch, submitted |-> submitted], c, f)
            IN  /\ channels' = s.channels
                /\ acks' = s.acks
                /\ SetDispatch(s.disp)
                /\ submitted' = s.submitted
                /\ named' = [named EXCEPT ![c][f.channel] = IF @ < 2 THEN @ + 1 ELSE @]
    /\ UNCHANGED <<sock, isAlive, timer, sinceLastPong, cleanups, answered>>
    /\ UNCHANGED <<workerVars, completed>>

\* The whole system: connections come and go, clients send any frame.
Next ==
    \/ \E c \in Conns : Accept(c)
    \/ \E c \in Conns : OnPong(c)
    \/ \E c \in Conns : Heartbeat(c)
    \/ \E c \in Conns : OnClose(c)
    \/ \E c \in Conns, f \in Frames : OnMessage(c, f, MaxConnJobs)
    \/ \E w \in Workers : OnWorkerMessage(w)
    \/ WorkerStep

Spec == Init /\ [][Next]_vars

\* The dispatcher and the worker pool under a longer run of jobs.  The
\* dispatcher reads nothing of a connection, so one client that stays
\* connected submits every job.
NextPool ==
    \/ Accept(1)
    \/ \E f \in JobFrames : OnMessage(1, f, MaxJobs)
    \/ \E w \in Workers : OnWorkerMessage(w)
    \/ WorkerStep

SpecPool == Init /\ [][NextPool]_vars

\* The dispatcher under a run of jobs long enough for several jobs to wait
\* in requestQueue together.  The dispatcher never reads a job, so the jobs
\* are all sensor inserts; such a job ends with a success, with an error
\* (no connection) or with no completion at all (a rejecting query).
NextQueue ==
    \/ Accept(1)
    \/ \E f \in SensorFrames : OnMessage(1, f, MaxQueueJobs)
    \/ \E w \in Workers : OnWorkerMessage(w)
    \/ \E w \in Workers : GetConnectionOk(w)
    \/ \E w \in Workers : GetConnectionFail(w)
    \/ \E w \in Workers : InsertSensorOk(w)
    \/ \E w \in Workers : QueryFail(w)

SpecQueue == Init /\ [][NextQueue]_vars

\* The connections alone: the heartbeat reads nothing of the dispatcher or
\* of the registry, so the clients send only frames naming 'frontend',
\* which subscribe them and submit no job.
FrontendFrames == { Frame(0, "frontend", "insert", NoData) }

NextConn ==
    \/ \E c \in Conns : Accept(c)
    \/ \E c \in Conns : OnPong(c)
    \/ \E c \in Conns : Heartbeat(c)
    \/ \E c \in Conns : OnClose(c)
    \/ \E c \in Conns, f \in FrontendFrames : OnMessage(c, f, MaxConnJobs)

SpecConn == Init /\ [][NextConn]_vars

\* ------------------------------------------------------------ properties
QueueIds(q) == {q[i].id : i \in 1..Len(q)}

\* C1: the number of busy workers plus the length of requestQueue equals the
\* number of jobs submitted minus the number of worker completion messages
\* handled, after every submission and every handled completion.
C1_Accounting ==
    BusyCount(busy) + Len(requestQueue) = submitted - completed

C1_Witness ==
    /\ completed >= 1
    /\ Len(posted) > workerPoolSize
    /\ BusyCount(busy) = workerPoolSize

C2_Submission ==
    (completed = 0 /\ submitted' = submitted + 1) =>
        IF submitted < workerPoolSize
        THEN /\ requestQueue' = <<>>
             /\ \E w \in Workers :
                    /\ ~busy[w] /\ inbox[w] = <<>>
                    /\ busy'[w]
                    /\ Len(inbox'[w]) = 1 /\ inbox'[w][1].id = submitted + 1
                    /\ \A v \in Workers \ {w} : busy'[v] = busy[v] /\ inbox'[v] = inbox[v]
             /\ submitted' = workerPoolSize => \A w \in Workers : busy'[w]
        ELSE /\ Len(requestQueue') = Len(requestQueue) + 1
             /\ requestQueue'[Len(requestQueue')].id = submitted + 1
             /\ SubSeq(requestQueue', 1, Len(requestQueue)) = requestQueue
             /\ busy' = busy /\ inbox' = inbox /\ posted' = posted

\* C2: from an idle pool of N workers, as long as no completion has been
\* handled, each of the first N submissions goes to a worker that had no job
\* and leaves requestQueue empty, and the (N+1)-th is appended to
\* requestQueue.
C2_PoolFill == [][C2_Submission]_vars

C2_Witness ==
    /\ completed = 0
    /\ submitted = workerPoolSize + 1
    /\ QueueIds(requestQueue) = {workerPoolSize + 1}
    /\ \A w \in Workers : busy[w]

\* C3: jobs are posted to workers in submission order: for jobs a and b with
\* a submitted before b, b is posted only after a has been posted.
C3_Fifo ==
    \A a, b \in 1..submitted :
        (a < b /\ b \in Range(posted)) =>
            /\ a \in Range(posted)
            /\ IndexOf(posted, a) < IndexOf(posted, b)

C3_Witness ==
    /\ completed >= 1
    /\ Len(posted) = workerPoolSize + 1
    /\ Len(requestQueue) >= 2
    /\ \E w \in Workers : inbox[w] # <<>> /\ Head(inbox[w]).id = workerPoolSize + 1

C4_CloseStep ==
    \A c \in Conns :
        (sock[c] # "closed" /\ sock'[c] = "closed") =>
            \A t \in TopicNames : c \notin Range(channels'[t])

\* C4 (as claimed): the step that handles a connection's close event leaves
\* the connection in no topic's subscriber list.
C4_CloseRemovesAll == [][C4_CloseStep]_vars

\* C5 (as claimed): a connection for which two heartbeat ticks have passed
\* since its last pong (or since accept) is terminated and is in no topic's
\* subscriber list.
C5_SilentRemoved ==
    \A c \in Conns :
        sinceLastPong[c] >= 2 =>
            /\ sock[c] \in {"terminating", "closed"}
            /\ \A t \in TopicNames : c \notin Range(channels[t])

\* C6: after two or more frames of a connection naming a known topic, the
\* connection has been sent exactly one acknowledgment for the topic, and
\* while it is open the topic's subscriber list holds it exactly once.
C6_Idempotent ==
    \A c \in Conns, t \in TopicNames :
        named[c][t] >= 2 =>
            /\ acks[c][t] = 1
            /\ Count(channels[t], c) <= 1
            /\ sock[c] = "open" => Count(channels[t], c) = 1

C6_Witness ==
    \E c \in Conns, t \in TopicNames :
        /\ named[c][t] >= 2
        /\ sock[c] = "open"
        /\ Count(channels[t], c) = 1
        /\ Len(channels[t]) = 2

\* C7 (as claimed): at most one INSERT INTO cluster_records is issued for a
\* cluster id that was not in the table, however many type-0 insert jobs
\* carry it and however the workers interleave.
C7_OneInsert ==
    \A id \in ClusterIds : insertAttempts[id] <= 1

\* C8 (as claimed): when a backend fault has hit the job of a worker, the
\* completion {result: 'error'} of that job is on its way to the server
\* (until the server handles it) and the worker thread is still running.
C8_FaultReported ==
    \A w \in Workers :
        wfault[w] =>
            /\ \E i \in 1..Len(outbox[w]) : outbox[w][i].result = "error"
            /\ wpc[w] # "crashed"

ErrorHandled(w) ==
    /\ outbox[w] # <<>>
    /\ Head(outbox[w]).result = "error"
    /\ outbox'[w] = Tail(outbox[w])

C9_ErrorStep ==
    /\ \A w \in Workers :
         ErrorHandled(w) =>
            /\ IF requestQueue = <<>>
               THEN /\ busy' = [busy EXCEPT ![w] = FALSE]
                    /\ requestQueue' = <<>>
                    /\ posted' = posted
                    /\ inbox' = inbox
               ELSE /\ requestQueue' = Tail(requestQueue)
                    /\ posted' = Append(posted, Head(requestQueue).id)
                    /\ \E v \in Workers :
                           /\ inbox' = [inbox EXCEPT ![v] = Append(@, Head(requestQueue))]
                           /\ busy' = [[busy EXCEPT ![w] = FALSE] EXCEPT ![v] = TRUE]
            /\ Head(outbox[w]).job \notin QueueIds(requestQueue')
            /\ Count(posted', Head(outbox[w]).job) = 1
    /\ \A i \in (Len(posted) + 1)..Len(posted') : posted'[i] \notin Range(posted)

\* C9: handling a completion message with result 'error' clears the worker's
\* busy flag and hands the head of requestQueue, if any, to a worker; the
\* failed job is not in requestQueue afterwards and has been posted once;
\* and no step posts a job that was posted before.
C9_ErrorLikeSuccess == [][C9_ErrorStep]_vars

C9_Witness ==
    \E w \in Workers :
        /\ held[w] > 0
        /\ outbox[w] = <<>>
        /\ inbox[w] # <<>>
        /\ Head(inbox[w]).id > workerPoolSize

C10_UnknownStep ==
    \A c \in Conns :
        named'[c]["other"] # named[c]["other"] =>
            /\ UNCHANGED <<channels, acks, submitted, requestQueue, busy, inbox, posted>>
            /\ UNCHANGED <<sock, isAlive, timer>>
            /\ sock[c] = "open"

\* C10: a frame naming a channel that is not registered changes no
\* subscriber list, sends no acknowledgment, submits no job, and leaves
\* requestQueue, the busy flags and the connection as they were.
C10_UnknownIgnored == [][C10_UnknownStep]_vars

C10_Witness ==
    \E c \in Conns :
        /\ named[c]["other"] >= 1
        /\ sock[c] = "open"
        /\ \E t \in TopicNames : c \in Range(channels[t])
        /\ submitted >= 1

\* The workers a lookup of the step finds idle: those whose flag was clear,
\* and the worker whose completion message the step handles.
FoundIdle ==
    {w \in Workers : ~busy[w] \/ (outbox[w] # <<>> /\ outbox'[w] = Tail(outbox[w]))}

C11_LookupStep ==
    /\ posted' # posted =>
          \E v \in FoundIdle :
              /\ \A u \in FoundIdle : v <= u
              /\ busy'[v]
              /\ Len(inbox'[v]) = Len(inbox[v]) + 1
              /\ inbox'[v][Len(inbox'[v])].id = posted'[Len(posted')]
              /\ \A u \in Workers \ {v} : inbox'[u] = inbox[u]
    /\ submitted' # submitted =>
          IF FoundIdle = {}
          THEN posted' = posted /\ busy' = busy /\ inbox' = inbox
          ELSE Len(posted') = Len(posted) + 1

\* C11: every job a step posts goes to the lowest-numbered worker (pool
\* creation order) among those the lookup finds idle, so the recipient is a
\* function of the busy flags alone; a submission that finds every flag set
\* posts nothing and changes no flag.
C11_FirstIdle == [][C11_LookupStep]_vars

C11_Witness ==
    /\ posted = <<1, 2, 3>>
    /\ completed = 1
    /\ busy[1] /\ busy[2] /\ ~busy[3]
    /\ inbox[2] # <<>> /\ Head(inbox[2]).id = 3

C12_CompletionStep ==
    \A w \in Workers :
        (outbox[w] # <<>> /\ outbox'[w] = Tail(outbox[w]) /\ requestQueue # <<>>) =>
            /\ requestQueue' = Tail(requestQueue)
            /\ inbox' = [inbox EXCEPT ![w] = Append(@, Head(requestQueue))]
            /\ posted' = Append(posted, Head(requestQueue).id)
            /\ busy'[w]
            /\ \A v \in Workers \ {w} : busy'[v] = busy[v]

\* C12: the step that handles the completion message of worker w while
\* requestQueue is not empty removes the head of requestQueue and nothing
\* else from it, posts that job to w and to no other worker, and leaves w
\* busy and the other flags as they were.  (The pool has workerPoolSize = 3
\* workers: three jobs are assigned, the fourth waits, and the completion of
\* one of the three hands the fourth to the worker that completed.)
C12_HandOver == [][C12_CompletionStep]_vars

C12_Witness ==
    /\ submitted = workerPoolSize + 1
    /\ completed = 1
    /\ requestQueue = <<>>
    /\ \A w \in Workers : busy[w]
    /\ inbox[2] # <<>> /\ Head(inbox[2]).id = workerPoolSize + 1
    /\ inbox[1] = <<>> /\ inbox[3] = <<>>

\* Worker w holds a job that is not finished: a message posted to it is not
\* received yet, a query of its handleInsertRequest is pending, or its
\* completion message is not handled yet.
HoldsJob(w) ==
    \/ inbox[w] # <<>>
    \/ wpc[w] \in {"select", "insertCluster", "insertSensor"}
    \/ outbox[w] # <<>>

\* C13 (as claimed): a worker's busy flag is set if and only if the worker
\* holds a job that is not finished, and a worker never has more than one
\* job (received or waiting in its inbox) at a time.
C13_BusyIffHolds ==
    \A w \in Workers :
        /\ busy[w] <=> HoldsJob(w)
        /\ Len(inbox[w]) + (IF wpc[w] \in {"select", "insertCluster", "insertSensor"} THEN 1 ELSE 0)
               + Len(outbox[w]) <= 1

Pending == {"select", "insertCluster", "insertSensor"}

\* The step ends the work of worker w on a job: the handler returned with no
\* query pending, or the last pending query settled.
JobEnds(w) ==
    \/ Len(inbox'[w]) < Len(inbox[w]) /\ wpc'[w] \notin Pending
    \/ wpc[w] \in Pending /\ wpc'[w] \notin Pending

C14_EndStep ==
    \A w \in Workers :
        JobEnds(w) => Len(outbox'[w]) = Len(outbox[w]) + 1

\* C14 (as claimed): whatever the job, the step in which a worker ends its
\* work on the job posts a completion message to the server (after that
\* step nothing of the job is pending in the worker, so a completion that is
\* not posted then is never posted and the busy flag is never cleared).
C14_CompletionEmitted == [][C14_EndStep]_vars

\* C15 (as claimed): a worker whose message handler is not running holds no
\* connection handle: every handle acquired for a job was released by the
\* time the handler's run for that job ended, whichever way it ended.
C15_ReleasedOnce ==
    \A w \in Workers : held[w] = 0

\* C16 (as claimed): cleanupClient is called at most once for a connection,
\* and it has been called once when the connection's close event has been
\* handled, whichever way the connection ended.
C16_CleanupOnce ==
    \A c \in Conns :
        /\ cleanups[c] <= 1
        /\ sock[c] = "closed" => cleanups[c] = 1

\* The step is a heartbeat tick of connection c.
Tick(c) == sinceLastPong'[c] = sinceLastPong[c] + 1

C17_TickStep ==
    \A c \in Conns :
        /\ (Tick(c) /\ sinceLastPong[c] = 0) =>
              /\ isAlive[c] /\ ~isAlive'[c]
              /\ timer'[c]
              /\ sock'[c] = sock[c]
              /\ cleanups'[c] = cleanups[c]
        /\ (timer[c] /\ ~timer'[c]) => (~isAlive[c] /\ sinceLastPong[c] >= 1)
        /\ sinceLastPong'[c] < sinceLastPong[c] => isAlive'[c]

\* C17: a heartbeat tick of a connection whose last ping was answered by a
\* pong (or that was pinged never before) finds isAlive set, clears it and
\* pings again, and neither terminates the connection nor stops the timer;
\* the timer stops only at a tick that finds the flag clear, a tick after
\* which no pong came; and a pong sets the flag.
C17_ResponsiveKept == [][C17_TickStep]_vars

C17_Witness ==
    \E c \in Conns :
        /\ answered[c]
        /\ sinceLastPong[c] = 1
        /\ ~isAlive[c]
        /\ timer[c]
        /\ sock[c] = "open"

\* C18: while a job waits in requestQueue every worker's busy flag is set.
C18_NoIdleWhileQueued ==
    requestQueue # <<>> => \A w \in Workers : busy[w]

C18_Witness ==
    /\ completed >= 2
    /\ Len(requestQueue) >= 1
    /\ Len(posted) = workerPoolSize + 2
    /\ \A w \in Workers : busy[w]

\* A run of sensor-insert jobs on a server whose event loop delivers every
\* message event: a completion message a worker has posted is eventually
\* handled by the 'message' listener of that worker.
NextLive ==
    \/ Accept(1)
    \/ \E f \in SensorFrames : OnMessage(1, f, MaxLiveJobs)
    \/ \E w \in Workers : OnWorkerMessage(w)
    \/ \E w \in Workers : GetConnectionOk(w)
    \/ \E w \in Workers : GetConnectionFail(w)
    \/ \E w \in Workers : InsertSensorOk(w)
    \/ \E w \in Workers : QueryFail(w)

SpecLive ==
    Init /\ [][NextLive]_vars /\ \A w \in Workers : WF_vars(OnWorkerMessage(w))

\* Every busy worker eventually sends a completion message.
WorkersComplete ==
    \A w \in Workers : busy[w] ~> (outbox[w] # <<>>)

\* C19: if every busy worker eventually sends a completion message, every
\* submitted job is eventually posted to a worker; and no job is posted
\* twice.
C19_EventuallyPosted ==
    /\ [](\A j \in Range(posted) : Count(posted, j) = 1)
    /\ WorkersComplete =>
          \A j \in 1..MaxLiveJobs : (submitted >= j) ~> (j \in Range(posted))

C19_Witness ==
    /\ submitted = workerPoolSize + 2
    /\ completed = submitted
    /\ posted = <<1, 2, 3, 4, 5>>
    /\ \A w \in Workers : ~busy[w] /\ ~wfault[w]

C20_ClosedStep ==
    \A c \in Conns :
        sock[c] = "closed" =>
            /\ ~(isAlive[c] /\ ~isAlive'[c])
            /\ cleanups'[c] = cleanups[c]

\* C20 (as claimed): once the close event of a connection has been handled
\* no step pings the connection (the tick that clears isAlive) or calls
\* terminate and cleanupClient for it.
C20_TimerQuiet == [][C20_ClosedStep]_vars

====
